---- MODULE Spec2Model ----
(***************************************************************************)
(* Model of waha_python_wrapper: the endpoint factories plain_path_wrapper *)
(* and path_param_wrapper (tools.py), the callables they generate,         *)
(* handle_response (tools.py) and handle_error (errors.py).                *)
(*                                                                         *)
(* Strings that the code inspects character by character (path templates,  *)
(* placeholder names, substituted values, URLs) are sequences of           *)
(* one-character strings.  Python's None is the value PyNone.              *)
(***************************************************************************)
EXTENDS Integers, Sequences, FiniteSets, TLC

\* ------------------------------------------------------------------------
\* Bounds of the model
\* ------------------------------------------------------------------------
\* longest path template, in segments
MaxSegs == 3
\* calls that may be in progress at the same time
MaxCalls == 2

\* ------------------------------------------------------------------------
\* Python values
\* ------------------------------------------------------------------------
PyNone == [t |-> "none"]

Obj(d) == [t |-> "obj", v |-> d]

\* the empty dict {}
EmptyDict == [k \in {} |-> "x"]

\* ------------------------------------------------------------------------
\* class Methods(str, Enum)
\* ------------------------------------------------------------------------
Methods == {"GET", "HEAD", "POST", "PUT", "DELETE", "CONNECT", "OPTIONS", "TRACE", "PATCH"}

\* a method argument is a Methods member or a plain string
EnumMethod(m) == [enum |-> TRUE, v |-> m]

StrMethod(s) == [enum |-> FALSE, v |-> s]

\* strings passed as method: each supported verb in three letter cases,
\* an unsupported verb, and two strings that name no method
MethodStrings == {"get", "Get", "GET", "post", "Post", "POST", "put", "Put", "PUT",
                  "delete", "Delete", "DELETE", "patch", "Patch", "PATCH",
                  "head", "HEAD", "trace", "foo", ""}

\* str(method).upper()
upper(s) ==
    CASE s \in {"get", "Get", "GET"} -> "GET"
      [] s \in {"post", "Post", "POST"} -> "POST"
      [] s \in {"put", "Put", "PUT"} -> "PUT"
      [] s \in {"delete", "Delete", "DELETE"} -> "DELETE"
      [] s \in {"patch", "Patch", "PATCH"} -> "PATCH"
      [] s \in {"head", "HEAD"} -> "HEAD"
      [] s = "trace" -> "TRACE"
      [] s = "foo" -> "FOO"
      [] OTHER -> s

\* ------------------------------------------------------------------------
\* Character strings
\* ------------------------------------------------------------------------
Letters == {"a", "b", "x", "v"}

\* characters of a placeholder name in the sense of the path templates:
\* letters, digits and underscore
NameChars == Letters \cup {"1", "_"}

\* str.replace(old, new) for a non-empty old: every non-overlapping
\* occurrence, leftmost first
RECURSIVE replace(_, _, _)
replace(s, old, new) ==
    IF Len(s) < Len(old) THEN s
    ELSE IF SubSeq(s, 1, Len(old)) = old
         THEN new \o replace(SubSeq(s, Len(old) + 1, Len(s)), old, new)
         ELSE <<Head(s)>> \o replace(Tail(s), old, new)

\* populate_path_params(path, lookup): lookup is the dict of keyword
\* arguments in insertion order, a sequence of [key, value]
RECURSIVE populate_path_params(_, _)
populate_path_params(path, lookup) ==
    IF lookup = <<>> THEN path
    ELSE populate_path_params(
             replace(path, <<"{">> \o Head(lookup).key \o <<"}">>, Head(lookup).value),
             Tail(lookup))

\* number of characters of [a-zA-Z]* matched greedily from position i
RECURSIVE LetterRun(_, _)
LetterRun(s, i) ==
    IF i <= Len(s) /\ s[i] \in Letters THEN 1 + LetterRun(s, i + 1) ELSE 0

\* length of the match of /{[a-zA-Z]*}/? at position i, 0 when there is none
MatchAt(s, i) ==
    IF i + 1 <= Len(s) /\ s[i] = "/" /\ s[i + 1] = "{"
    THEN LET j == i + 2 + LetterRun(s, i + 2)
         IN  IF j <= Len(s) /\ s[j] = "}"
             THEN IF j + 1 <= Len(s) /\ s[j + 1] = "/" THEN j + 2 - i ELSE j + 1 - i
             ELSE 0
    ELSE 0

\* pattern.findall(path): the non-overlapping matches, scanning from i
RECURSIVE findall(_, _)
findall(s, i) ==
    IF i > Len(s) THEN <<>>
    ELSE LET m == MatchAt(s, i)
         IN  IF m > 0 THEN <<SubSeq(s, i, i + m - 1)>> \o findall(s, i + m)
             ELSE findall(s, i + 1)

\* param.replace("/", "").replace("{", "").replace("}", "")
clean(param) == SelectSeq(param, LAMBDA c : c \notin {"/", "{", "}"})

\* cleaned_args of path_param_wrapper, as the list the code builds
cleaned_args(path) ==
    LET found == findall(path, 1)
    IN  [i \in 1..Len(found) |-> clean(found[i])]

SeqToSet(s) == {s[i] : i \in 1..Len(s)}

\* set(kwargs.keys())
KwargKeys(kwargs) == {kwargs[i].key : i \in 1..Len(kwargs)}

\* ------------------------------------------------------------------------
\* Typed shapes (pydantic models) handed to the factories
\* ------------------------------------------------------------------------
\* a shape maps each field to its alias, whether it is required, and its
\* default; "None" stands for an absent shape
QueryModel ==
    [all       |-> [alias |-> "all",      req |-> FALSE, dflt |-> "false"],
     page_size |-> [alias |-> "pageSize", req |-> FALSE, dflt |-> "10"]]

BodyModel ==
    [name      |-> [alias |-> "name",     req |-> TRUE,  dflt |-> ""],
     log_level |-> [alias |-> "logLevel", req |-> FALSE, dflt |-> "info"]]

ReplyModel ==
    [name      |-> [alias |-> "name",     req |-> TRUE,  dflt |-> ""],
     status    |-> [alias |-> "status",   req |-> FALSE, dflt |-> "STOPPED"]]

SchemaOf(cls) ==
    CASE cls = "QueryModel" -> QueryModel
      [] cls = "BodyModel" -> BodyModel
      [] cls = "ReplyModel" -> ReplyModel

Raise(e) == [exc |-> e, val |-> PyNone]

Return(v) == [exc |-> "none", val |-> v]

Instance(cls, vals) == [t |-> "model", cls |-> cls, vals |-> vals]

\* cls.model_validate(data): AttributeError on an absent shape,
\* ValidationError when data is no dict or lacks a required field; fields
\* are looked up by alias, missing optional fields take the shape's default
model_validate(cls, data) ==
    IF cls = "None" THEN Raise("AttributeError")
    ELSE IF data.t # "obj" THEN Raise("ValidationError")
    ELSE LET sch == SchemaOf(cls)
             d == data.v
         IN  IF \E f \in DOMAIN sch : sch[f].req /\ sch[f].alias \notin DOMAIN d
             THEN Raise("ValidationError")
             ELSE Return(Instance(cls,
                      [f \in DOMAIN sch |->
                          IF sch[f].alias \in DOMAIN d THEN d[sch[f].alias]
                          ELSE sch[f].dflt]))

\* inst.model_dump(by_alias=True): the dict keyed by the aliases
model_dump(inst) ==
    LET sch == SchemaOf(inst.cls)
    IN  Obj([a \in {sch[f].alias : f \in DOMAIN sch} |->
                inst.vals[CHOOSE f \in DOMAIN sch : sch[f].alias = a]])

\* ------------------------------------------------------------------------
\* Responses
\* ------------------------------------------------------------------------
\* a response body: wrong content type, empty, not JSON, unreadable, or a
\* JSON document with the value json.loads gives for it (null is None)
BodyKinds == {"wrong_ctype", "empty", "invalid_json", "read_error", "json"}

Body(kind, val) == [kind |-> kind, val |-> val]

EmptyList == [t |-> "list", v |-> <<>>]

\* await resp.json() on a response whose body can be read
json(resp) ==
    CASE resp.body.kind = "wrong_ctype" -> Raise("ContentTypeError")
      [] resp.body.kind = "invalid_json" -> Raise("JSONDecodeError")
      [] resp.body.kind = "read_error" -> Raise("ClientPayloadError")
      [] resp.body.kind = "empty" -> Return(PyNone)
      [] resp.body.kind = "json" -> Return(resp.body.val)

\* ------------------------------------------------------------------------
\* errors.py
\* ------------------------------------------------------------------------
Absent == [t |-> "absent"]

BaseAPIException(url, code, expected_code) ==
    [exc |-> "BaseAPIException", url |-> url, code |-> code,
     expected_code |-> expected_code, error_resp |-> Absent]

APIError(url, code, expected_code, error_resp) ==
    [exc |-> "APIError", url |-> url, code |-> code,
     expected_code |-> expected_code, error_resp |-> error_resp]

\* handle_error that reports the default expected_code instead of the one passed
handle_error_default_expected(resp, expected_code) ==
    LET decoded == json(resp)
        content == IF decoded.exc = "none" THEN decoded.val ELSE PyNone
    IN  IF content = PyNone
        THEN BaseAPIException(resp.url, resp.status, 200)
        ELSE APIError(resp.url, resp.status, 200, content)

\* the exception handle_error raises when it is awaited
handle_error(resp, expected_code) ==
    LET decoded == json(resp)
        content == IF decoded.exc = "none" THEN decoded.val ELSE PyNone
    IN  IF content = PyNone
        THEN BaseAPIException(resp.url, resp.status, expected_code)
        ELSE APIError(resp.url, resp.status, expected_code, content)

\* ------------------------------------------------------------------------
\* tools.handle_response
\* ------------------------------------------------------------------------
\* what awaiting handle_response ends with; readable tells whether the body
\* of resp can still be read (it cannot once the connection is gone)
handle_response(response_model, resp, expected_code, readable) ==
    IF ~(resp.status # expected_code)
    THEN \* raise <coroutine object>
         Raise("TypeError")
    ELSE IF response_model = "None" THEN Raise("AttributeError")
    ELSE LET decoded == IF readable THEN json(resp) ELSE Raise("ClientConnectionError")
         IN  IF decoded.exc # "none" THEN decoded
             ELSE model_validate(response_model, decoded.val)

\* ------------------------------------------------------------------------
\* Input domains
\* ------------------------------------------------------------------------
\* The inputs are explored in parts: each part varies the inputs one group
\* of operations depends on and holds the others at one typical value.
Scopes == {"method", "path", "schema", "response", "errors", "conc", "session"}

SupportedVerbs == {"GET", "POST", "PUT", "DELETE", "PATCH"}

\* WAHAConfig().waha_url
DefaultUrl == <<"h", "t", "t", "p", ":", "/", "/", "l", "o", "c", "a", "l", "h", "o", "s", "t",
                ":", "3", "0", "0", "0">>

Segments == {<<"/", "x">>, <<"/", "{", "a", "}">>, <<"/", "{", "b", "}">>,
             <<"/", "{", "a", "1", "}">>, <<"/", "x", "{", "a", "}">>, <<"/">>}

RECURSIVE TemplatesOf(_)
TemplatesOf(n) ==
    IF n <= 1 THEN Segments
    ELSE LET shorter == TemplatesOf(n - 1)
         IN  shorter \cup {t \o s : t \in shorter, s \in Segments}

Templates == TemplatesOf(MaxSegs)

PlainPath == <<"/", "x">>

OneParamPath == <<"/", "x", "/", "{", "a", "}">>

KwargNames == {<<"a">>, <<"b">>}

KwargValues == {<<"v">>, <<"{", "b", "}">>}

\* keyword arguments: up to two distinct names, in every order
KwargLists ==
    {<<>>}
    \cup {<<[key |-> k, value |-> v]>> : k \in KwargNames, v \in KwargValues}
    \cup {<<[key |-> ks[1], value |-> v1], [key |-> ks[2], value |-> v2]>> :
            ks \in {p \in KwargNames \X KwargNames : p[1] # p[2]},
            v1 \in KwargValues, v2 \in KwargValues}

StatusCodes == {200, 201, 404}

JsonValues == {PyNone, Obj(EmptyDict), EmptyList,
               Obj([name |-> "default", status |-> "WORKING"]),
               Obj([error |-> "x"])}

Bodies == {Body(k, PyNone) : k \in BodyKinds \ {"json"}} \cup {Body("json", j) : j \in JsonValues}

OkBody == Body("json", Obj([name |-> "default", status |-> "WORKING"]))

Response(url, status, body) == [url |-> url, status |-> status, body |-> body]

Decl(kind, path, params_model, response_model, expected_code, method, request_model, body_defaults, param_defaults) ==
    [kind |-> kind, path |-> path, params_model |-> params_model,
     response_model |-> response_model, expected_code |-> expected_code,
     method |-> method, request_model |-> request_model,
     body_defaults |-> body_defaults, param_defaults |-> param_defaults]

KindPaths == {<<"plain", PlainPath>>, <<"path", OneParamPath>>}

\* the arguments the factories are called with
FactoryInputs(sc) ==
    CASE sc = "method" ->
           {Decl(kp[1], kp[2], "QueryModel", "ReplyModel", 200, m, "BodyModel",
                 Obj([name |-> "default"]), PyNone) :
              kp \in KindPaths,
              m \in {EnumMethod(v) : v \in Methods} \cup {StrMethod(v) : v \in MethodStrings}}
      [] sc = "path" ->
           {Decl("path", t, "QueryModel", "ReplyModel", 200, EnumMethod(v), "BodyModel",
                 Obj([name |-> "default"]), PyNone) :
              t \in Templates, v \in SupportedVerbs}
      [] sc = "schema" ->
           {Decl(kp[1], kp[2], pm, rm, 201, EnumMethod(v), qm, bd, pd) :
              kp \in KindPaths, v \in SupportedVerbs,
              pm \in {"None", "QueryModel"}, rm \in {"None", "ReplyModel"},
              qm \in {"None", "BodyModel"},
              bd \in {PyNone, Obj([name |-> "default"])},
              pd \in {PyNone, Obj([all |-> "true"])}}
      [] sc = "response" ->
           {Decl(kp[1], kp[2], "QueryModel", rm, ec, EnumMethod(v), "BodyModel",
                 Obj([name |-> "default"]), PyNone) :
              kp \in KindPaths, v \in SupportedVerbs, rm \in {"None", "ReplyModel"},
              ec \in {200, 201}}
      [] sc = "conc" ->
           {Decl("path", OneParamPath, "QueryModel", "ReplyModel", 201, EnumMethod("POST"),
                 "BodyModel", Obj([name |-> "default"]), PyNone)}
      [] OTHER -> {}

\* the arguments a generated callable is called with
CallArgs(sc, ep) ==
    [cfg : IF sc = "method" THEN {DefaultUrl, <<"g">>} ELSE {DefaultUrl},
     params : IF sc = "schema"
              THEN {PyNone, Instance("QueryModel", [all |-> "true", page_size |-> "5"])}
              ELSE {PyNone},
     body : IF sc = "schema" /\ ep.verb \in {"POST", "PUT", "PATCH"}
            THEN {PyNone, Instance("BodyModel", [name |-> "work", log_level |-> "debug"])}
            ELSE {PyNone},
     session : IF sc \in {"schema", "response", "conc"} THEN {"None", "caller"} ELSE {"None"},
     kwargs : IF ep.kind = "plain" THEN {<<>>}
              ELSE IF sc = "path" THEN KwargLists
              ELSE {<<[key |-> <<"a">>, value |-> v]>> :
                      v \in IF sc = "conc" THEN KwargValues ELSE {<<"v">>}}]

\* what the server answers to a request sent to url
Answers(sc, ep, url) ==
    CASE sc = "response" ->
           {Response(url, st, b) : st \in StatusCodes, b \in Bodies}
      [] sc \in {"schema", "conc"} ->
           {Response(url, ep.expected_code, OkBody),
            Response(url, 404, Body("json", Obj([error |-> "x"])))}
      [] OTHER -> {Response(url, ep.expected_code, OkBody)}

\* ------------------------------------------------------------------------
\* The factories
\* ------------------------------------------------------------------------
\* tools.py 96-108 and 348-360: the method as a Methods member
parse_method(method) ==
    IF ~method.enum
    THEN IF upper(method.v) \in Methods
         THEN [exc |-> "none", verb |-> upper(method.v)]
         ELSE [exc |-> "ValueError", verb |-> ""]
    ELSE [exc |-> "none", verb |-> method.v]

\* the chain `if parsed_method == method.GET ... else: raise ValueError`:
\* method.GET is an attribute of the argument, which a str does not have
select_api_call(method, parsed_method) ==
    IF ~method.enum THEN [exc |-> "AttributeError", verb |-> ""]
    ELSE IF parsed_method \in SupportedVerbs THEN [exc |-> "none", verb |-> parsed_method]
    ELSE [exc |-> "ValueError", verb |-> ""]

NoEndpoint == [kind |-> "none"]

\* a closure in which the two defaults changed places
Endpoint_defaults_swapped(d, verb) ==
    [kind |-> d.kind, path |-> d.path, params_model |-> d.params_model,
     response_model |-> d.response_model, request_model |-> d.request_model,
     expected_code |-> d.expected_code, verb |-> verb,
     param_defaults |-> IF d.body_defaults = PyNone THEN Obj(EmptyDict) ELSE d.body_defaults,
     body_defaults |-> IF d.param_defaults = PyNone THEN Obj(EmptyDict) ELSE d.param_defaults,
     cleaned_args |-> IF d.kind = "path" THEN cleaned_args(d.path) ELSE <<>>]

\* what the closure of the generated callable holds
Endpoint(d, verb) ==
    [kind |-> d.kind, path |-> d.path, params_model |-> d.params_model,
     response_model |-> d.response_model, request_model |-> d.request_model,
     expected_code |-> d.expected_code, verb |-> verb,
     param_defaults |-> IF d.param_defaults = PyNone THEN Obj(EmptyDict) ELSE d.param_defaults,
     body_defaults |-> IF d.body_defaults = PyNone THEN Obj(EmptyDict) ELSE d.body_defaults,
     cleaned_args |-> IF d.kind = "path" THEN cleaned_args(d.path) ELSE <<>>]

\* the body shared by plain_path_wrapper and path_param_wrapper
make_wrapper(d) ==
    LET parsed == parse_method(d.method)
    IN  IF parsed.exc # "none"
        THEN [state |-> "raised", exc |-> parsed.exc, ep |-> NoEndpoint, args |-> d]
        ELSE LET sel == select_api_call(d.method, parsed.verb)
             IN  IF sel.exc # "none"
                 THEN [state |-> "raised", exc |-> sel.exc, ep |-> NoEndpoint, args |-> d]
                 ELSE [state |-> "made", exc |-> "none", ep |-> Endpoint(d, sel.verb),
                       args |-> d]

\* ------------------------------------------------------------------------
\* The generated callable
\* ------------------------------------------------------------------------
HasBody(verb) == verb \in {"POST", "PUT", "PATCH"}

NoReq == [verb |-> "none"]

Request(verb, url, params, body) == [verb |-> verb, url |-> url, params |-> params, json |-> body]

\* api_call up to the request: the exception raised before any request, or
\* the request handed to session.get/post/put/delete/patch
api_call(ep, args) ==
    IF ep.kind = "path" /\ KwargKeys(args.kwargs) # SeqToSet(ep.cleaned_args)
    THEN [exc |-> "ValueError", req |-> NoReq]
    ELSE LET params == IF args.params.t = "none"
                       THEN model_validate(ep.params_model, ep.param_defaults)
                       ELSE Return(args.params)
         IN  IF params.exc # "none" THEN [exc |-> params.exc, req |-> NoReq]
             ELSE LET body == IF HasBody(ep.verb) /\ args.body.t = "none"
                              THEN model_validate(ep.request_model, ep.body_defaults)
                              ELSE Return(args.body)
                  IN  IF body.exc # "none" THEN [exc |-> body.exc, req |-> NoReq]
                      ELSE LET target_url ==
                                   args.cfg \o (IF ep.kind = "path"
                                                THEN populate_path_params(ep.path, args.kwargs)
                                                ELSE ep.path)
                           IN  [exc |-> "none",
                                req |-> Request(ep.verb, target_url, model_dump(params.val),
                                                IF HasBody(ep.verb) THEN model_dump(body.val)
                                                ELSE Absent)]

\* the object `return handle_response(...)` hands back: the call, not run
Coroutine(response_model, resp, expected_code) ==
    [t |-> "coroutine", fn |-> "handle_response", response_model |-> response_model,
     resp |-> resp, expected_code |-> expected_code]

\* ------------------------------------------------------------------------
\* State
\* ------------------------------------------------------------------------
VARIABLES
    scope,      \* the part of the input domain explored
    factory,    \* the factory call: not made yet, raised, or the endpoint made
    calls,      \* per call of the generated callable: its position and data
    direct,     \* a direct await of handle_error or handle_response
    session_py  \* the module api/session.py: not imported, failed, or loaded

vars == <<scope, factory, calls, direct, session_py>>

CallIds == 1..MaxCalls

\* the calls that run in a part of the input domain
Callers(sc) == IF sc = "conc" THEN CallIds ELSE {1}

NoResp == [status |-> 0]

IdleCall ==
    [pc |-> "idle", args |-> PyNone, nreq |-> 0, req |-> NoReq, session |-> "none",
     created |-> 0, handled |-> "no", sessionOpen |-> FALSE, respOpen |-> FALSE, resp |-> NoResp, out |-> Raise("none"),
     final |-> Raise("none")]

NoDirect == [fn |-> "none"]

\* the names tools.py binds at module level (its imports, Methods and its
\* four functions)
ToolsNames ==
    {"BaseModel", "Callable", "List", "Dict", "handle_error", "aiohttp", "WAHAConfig", "Enum",
     "re", "Methods", "handle_response", "populate_path_params", "plain_path_wrapper",
     "path_param_wrapper"}

\* from <module> import <wanted>: ImportError when a name is not bound there
import_from(names, wanted) == IF wanted \subseteq names THEN "none" ELSE "ImportError"

\* the three endpoint declarations of api/session.py
SessionDecls ==
    [start_session |-> [path |-> "/api/sessions/start", method |-> "POST", expected_code |-> 201,
                        body_defaults |-> [name |-> "default"]],
     stop_session  |-> [path |-> "/api/sessions/stop", method |-> "POST", expected_code |-> 201,
                        body_defaults |-> [name |-> "default"]],
     list_session  |-> [path |-> "/api/sessions/", method |-> "GET", expected_code |-> 200,
                        body_defaults |-> EmptyDict]]

NotImported == [state |-> "unloaded", exc |-> "none", names |-> {}]

Init ==
    /\ scope \in Scopes
    /\ factory = [state |-> "none", exc |-> "none", ep |-> NoEndpoint, args |-> PyNone]
    /\ calls = [c \in CallIds |-> IdleCall]
    /\ direct = NoDirect
    /\ session_py = NotImported

\* plain_path_wrapper(path, params_model, response_model, expected_code, ...)
plain_path_wrapper ==
    /\ factory.state = "none"
    /\ \E d \in {i \in FactoryInputs(scope) : i.kind = "plain"} :
           factory' = make_wrapper(d)
    /\ UNCHANGED <<scope, calls, direct, session_py>>

\* path_param_wrapper(path, params_model, response_model, expected_code, ...)
path_param_wrapper ==
    /\ factory.state = "none"
    /\ \E d \in {i \in FactoryInputs(scope) : i.kind = "path"} :
           factory' = make_wrapper(d)
    /\ UNCHANGED <<scope, calls, direct, session_py>>

\* an api_call that writes the parameters it sent back into param_defaults
ApiCall_writes_defaults(c) ==
    /\ factory.state = "made"
    /\ c \in Callers(scope)
    /\ calls[c].pc = "idle"
    /\ \E args \in CallArgs(scope, factory.ep) :
           LET r == api_call(factory.ep, args)
           IN  /\ calls' = [calls EXCEPT ![c] =
                      IF r.exc # "none"
                      THEN [@ EXCEPT !.pc = "raised", !.args = args, !.out = Raise(r.exc)]
                      ELSE [@ EXCEPT !.pc = "requested", !.args = args, !.nreq = @ + 1,
                                     !.req = r.req,
                                     !.session = IF args.session = "None" THEN "adhoc" ELSE "caller",
                                     !.created = IF args.session = "None" THEN @ + 1 ELSE @,
                                     !.sessionOpen = TRUE]]
               /\ factory' = IF r.exc # "none" THEN factory
                             ELSE [factory EXCEPT !.ep.param_defaults = r.req.params]
    /\ UNCHANGED <<scope, direct, session_py>>

\* await api_call(cfg, params, body, session, **kwargs), up to the request
ApiCall(c) ==
    /\ factory.state = "made"
    /\ c \in Callers(scope)
    /\ calls[c].pc = "idle"
    /\ \E args \in CallArgs(scope, factory.ep) :
           LET r == api_call(factory.ep, args)
           IN  calls' = [calls EXCEPT ![c] =
                   IF r.exc # "none"
                   THEN [@ EXCEPT !.pc = "raised", !.args = args, !.out = Raise(r.exc)]
                   ELSE [@ EXCEPT !.pc = "requested", !.args = args, !.nreq = @ + 1,
                                  !.req = r.req,
                                  !.session = IF args.session = "None" THEN "adhoc" ELSE "caller",
                                  !.created = IF args.session = "None" THEN @ + 1 ELSE @,
                                  !.sessionOpen = TRUE]]
    /\ UNCHANGED <<scope, factory, direct, session_py>>

\* an api_call that on its way out closes whatever session it used
ApiCallReturn_closes_any_session(c) ==
    /\ calls[c].pc = "requested"
    /\ \E resp \in Answers(scope, factory.ep, calls[c].req.url) :
           calls' = [calls EXCEPT ![c] =
               [@ EXCEPT !.pc = "returned", !.resp = resp, !.respOpen = FALSE,
                         !.sessionOpen = FALSE,
                         !.out = Return(Coroutine(factory.ep.response_model, resp,
                                                  factory.ep.expected_code))]]
    /\ UNCHANGED <<scope, factory, direct, session_py>>

\* the response arrives: api_call returns handle_response(...) and leaves
\* both `async with` blocks, releasing the response and closing a session
\* it created itself
ApiCallReturn(c) ==
    /\ calls[c].pc = "requested"
    /\ \E resp \in Answers(scope, factory.ep, calls[c].req.url) :
           calls' = [calls EXCEPT ![c] =
               [@ EXCEPT !.pc = "returned", !.resp = resp, !.respOpen = FALSE,
                         !.sessionOpen = (@ /\ calls[c].session = "caller"),
                         !.out = Return(Coroutine(factory.ep.response_model, resp,
                                                  factory.ep.expected_code))]]
    /\ UNCHANGED <<scope, factory, direct, session_py>>

\* the request fails in the transport: the exception leaves api_call
ApiCallTransportError(c) ==
    /\ calls[c].pc = "requested"
    /\ scope \in {"response", "conc"}
    /\ calls' = [calls EXCEPT ![c] =
           [@ EXCEPT !.pc = "raised", !.out = Raise("ClientConnectionError"),
                     !.sessionOpen = (@ /\ calls[c].session = "caller")]]
    /\ UNCHANGED <<scope, factory, direct, session_py>>

\* the caller awaits what the callable returned: handle_response runs now,
\* on the released response, whose body may or may not still be readable;
\* handled records whether the response was open when handle_response ran
AwaitReturned(c) ==
    /\ calls[c].pc = "returned"
    /\ \E readable \in BOOLEAN :
           LET co == calls[c].out.val
           IN  calls' = [calls EXCEPT ![c] =
                   [@ EXCEPT !.pc = "awaited",
                             !.handled = IF calls[c].respOpen THEN "open" ELSE "released",
                             !.final = handle_response(co.response_model, co.resp,
                                                       co.expected_code, readable)]]
    /\ UNCHANGED <<scope, factory, direct, session_py>>

\* await handle_error(resp, expected_code) on an open response;
\* expected_code is 200 when the caller omits it
AwaitHandleError ==
    /\ scope = "errors"
    /\ direct = NoDirect
    /\ \E st \in StatusCodes, b \in Bodies, ec \in {200, 201}, u \in {DefaultUrl \o PlainPath, <<"g">>} :
           direct' = [fn |-> "handle_error", resp |-> Response(u, st, b),
                      expected_code |-> ec, response_model |-> "None",
                      out |-> handle_error(Response(u, st, b), ec)]
    /\ UNCHANGED <<scope, factory, calls, session_py>>

\* await handle_response(response_model, resp, expected_code) on an open response
AwaitHandleResponse ==
    /\ scope = "errors"
    /\ direct = NoDirect
    /\ \E st \in StatusCodes, b \in Bodies, ec \in {200, 201}, rm \in {"None", "ReplyModel"} :
           direct' = [fn |-> "handle_response", resp |-> Response(DefaultUrl \o PlainPath, st, b),
                      expected_code |-> ec, response_model |-> rm,
                      out |-> handle_response(rm, Response(DefaultUrl \o PlainPath, st, b), ec, TRUE)]
    /\ UNCHANGED <<scope, factory, calls, session_py>>

\* import waha_python_wrapper.api.session: its first statement is
\* `from waha_python_wrapper.tools import api_endpoint_wrapper, Methods`
ImportSession ==
    /\ scope = "session"
    /\ session_py.state = "unloaded"
    /\ session_py' =
           IF import_from(ToolsNames, {"api_endpoint_wrapper", "Methods"}) # "none"
           THEN [state |-> "raised", exc |-> "ImportError", names |-> {}]
           ELSE [state |-> "loaded", exc |-> "none", names |-> DOMAIN SessionDecls]
    /\ UNCHANGED <<scope, factory, calls, direct>>

Next ==
    \/ ImportSession
    \/ plain_path_wrapper
    \/ path_param_wrapper
    \/ \E c \in CallIds : ApiCall(c)
    \/ \E c \in CallIds : ApiCallReturn(c)
    \/ \E c \in CallIds : ApiCallTransportError(c)
    \/ \E c \in CallIds : AwaitReturned(c)
    \/ AwaitHandleError
    \/ AwaitHandleResponse

Spec == Init /\ [][Next]_vars

TypeOK ==
    /\ scope \in Scopes
    /\ factory.state \in {"none", "raised", "made"}
    /\ \A c \in CallIds : calls[c].pc \in {"idle", "requested", "returned", "raised", "awaited"}

\* ------------------------------------------------------------------------
\* Notions the claims are stated with
\* ------------------------------------------------------------------------
\* the call has ended, with the response resp received
Ended(c) == calls[c].pc \in {"returned", "raised", "awaited"}

Answered(c) == Ended(c) /\ calls[c].resp.status # 0

\* the named placeholders {name} occurring in a template
PlaceholderNames(s) ==
    {SubSeq(s, p[1] + 1, p[2] - 1) :
        p \in {q \in (1..Len(s)) \X (1..Len(s)) :
                  /\ s[q[1]] = "{"
                  /\ s[q[2]] = "}"
                  /\ q[2] > q[1] + 1
                  /\ \A k \in (q[1] + 1)..(q[2] - 1) : s[k] \in NameChars}}

\* the template with each placeholder of a passed name replaced by the value
\* passed for it, in one pass: text of the values is not looked at again
RECURSIVE Substituted(_, _)
Substituted(s, kwargs) ==
    IF s = <<>> THEN <<>>
    ELSE LET hits == {i \in 1..Len(kwargs) :
                         LET ph == <<"{">> \o kwargs[i].key \o <<"}">>
                         IN  Len(ph) <= Len(s) /\ SubSeq(s, 1, Len(ph)) = ph}
         IN  IF hits # {}
             THEN LET i == CHOOSE h \in hits : TRUE
                  IN  kwargs[i].value
                      \o Substituted(SubSeq(s, Len(kwargs[i].key) + 3, Len(s)), kwargs)
             ELSE <<Head(s)>> \o Substituted(Tail(s), kwargs)

\* the dict a shape sends for declared defaults d: per alias the declared
\* value, else the shape's own default
DefaultsSent(cls, d) ==
    LET sch == SchemaOf(cls)
    IN  Obj([a \in {sch[f].alias : f \in DOMAIN sch} |->
                IF a \in DOMAIN d THEN d[a]
                ELSE sch[CHOOSE f \in DOMAIN sch : sch[f].alias = a].dflt])

\* the dict sent for a value the caller passed holds that value's fields
CallerSent(sent, inst) ==
    LET sch == SchemaOf(inst.cls)
    IN  /\ sent.t = "obj"
        /\ DOMAIN sent.v = {sch[f].alias : f \in DOMAIN sch}
        /\ \A f \in DOMAIN sch : sent.v[sch[f].alias] = inst.vals[f]

DeclaredDict(x) == IF x.t = "none" THEN EmptyDict ELSE x.v

\* the verb a method argument names, "" when it names none of the five
VerbGiven(method) ==
    IF method.enum
    THEN IF method.v \in SupportedVerbs THEN method.v ELSE ""
    ELSE IF upper(method.v) \in SupportedVerbs THEN upper(method.v) ELSE ""

\* ------------------------------------------------------------------------
\* Claims
\* ------------------------------------------------------------------------

\* C1: when the response has the expected status and a body that fits the
\* declared response shape, awaiting the callable raises nothing and yields
\* the validated body, a model value.
C1_ExpectedStatusYieldsModel ==
    \A c \in CallIds :
        (/\ Answered(c)
         /\ calls[c].resp.status = factory.ep.expected_code
         /\ factory.ep.response_model # "None"
         /\ json(calls[c].resp).exc = "none"
         /\ model_validate(factory.ep.response_model, json(calls[c].resp).val).exc = "none")
        => calls[c].out = model_validate(factory.ep.response_model, json(calls[c].resp).val)

\* C2: when the response has another status than expected, awaiting the
\* callable ends by raising BaseAPIException or APIError; it never returns.
C2_UnexpectedStatusRaises ==
    \A c \in CallIds :
        (Answered(c) /\ calls[c].resp.status # factory.ep.expected_code)
        => (calls[c].pc = "raised" /\ calls[c].out.exc \in {"BaseAPIException", "APIError"})

\* C3: on a status mismatch the error is a BaseAPIException without payload
\* when the body does not decode or is absent, and an APIError carrying the
\* decoded payload when the body is any JSON value, null included.
C3_VariantByDecodability ==
    (direct.fn = "handle_error" /\ direct.resp.status # direct.expected_code)
    => IF direct.resp.body.kind = "json"
       THEN direct.out.exc = "APIError" /\ direct.out.error_resp = direct.resp.body.val
       ELSE direct.out.exc = "BaseAPIException" /\ direct.out.error_resp = Absent

C5_ExactlyOneRequest ==
    \A c \in CallIds :
        (Ended(c) /\ ~(calls[c].pc = "raised" /\ calls[c].out.exc \in {"ValueError", "ValidationError"}))
        => calls[c].nreq = 1

\* C6: a callable of path_param_wrapper raises ValueError exactly when the
\* names of its keyword arguments differ from the placeholder names of the
\* template, and goes on to the request when they are equal.
C6_ExactSetMatch ==
    \A c \in CallIds :
        (factory.state = "made" /\ factory.ep.kind = "path" /\ calls[c].pc # "idle")
        => IF KwargKeys(calls[c].args.kwargs) # PlaceholderNames(factory.ep.path)
           THEN calls[c].pc = "raised" /\ calls[c].out.exc = "ValueError" /\ calls[c].nreq = 0
           ELSE ~(calls[c].pc = "raised" /\ calls[c].out.exc = "ValueError")

\* C7: the URL requested is the base URL followed by the template with each
\* placeholder replaced by the value passed for it; no placeholder is left
\* and no other text, text of the values included, is altered.
C7_SubstitutionCorrect ==
    \A c \in CallIds :
        (factory.state = "made" /\ factory.ep.kind = "path" /\ calls[c].nreq > 0)
        => /\ calls[c].req.url
                = calls[c].args.cfg \o Substituted(factory.ep.path, calls[c].args.kwargs)
           /\ PlaceholderNames(factory.ep.path) \subseteq KwargKeys(calls[c].args.kwargs)

\* C8: a request carries the declared defaults for params (and, on POST, PUT
\* and PATCH, for body) when the caller omits them, and exactly the caller's
\* values when the caller passes them; GET and DELETE send no body.
C8_DefaultsApplied ==
    \A c \in CallIds :
        calls[c].nreq > 0
        => LET a == calls[c].args
               r == calls[c].req
               d == factory.args
           IN  /\ IF a.params.t = "none"
                  THEN r.params = DefaultsSent(d.params_model, DeclaredDict(d.param_defaults))
                  ELSE CallerSent(r.params, a.params)
               /\ IF ~HasBody(r.verb) THEN r.json = Absent
                  ELSE IF a.body.t = "none"
                  THEN r.json = DefaultsSent(d.request_model, DeclaredDict(d.body_defaults))
                  ELSE CallerSent(r.json, a.body)

C8_Witness ==
    \E c \in CallIds :
        /\ calls[c].nreq = 1
        /\ calls[c].req.verb = "PUT"
        /\ calls[c].args.params.t = "none"
        /\ calls[c].args.body.t = "none"
        /\ factory.args.param_defaults # PyNone
        /\ factory.args.body_defaults # PyNone
        /\ calls[c].req.params.v["all"] = "true"
        /\ calls[c].req.json.v["logLevel"] = "info"

\* C9: whichever of the parameter shape, body shape, response shape and path
\* placeholders are absent, no call of the generated callable, and no await
\* of what it returns, fails because an absent shape is used.
C9_AbsentSchemaNeverUsed ==
    \A c \in CallIds :
        calls[c].out.exc # "AttributeError" /\ calls[c].final.exc # "AttributeError"

\* C10: given GET, POST, PUT, DELETE or PATCH as a Methods member or as a
\* string in any letter case, the factory returns a callable, and the
\* requests of that callable use the verb given.
C10_SupportedMethodGivesCallable ==
    (factory.state # "none" /\ VerbGiven(factory.args.method) # "")
    => /\ factory.state = "made"
       /\ factory.ep.verb = VerbGiven(factory.args.method)
       /\ \A c \in CallIds :
             calls[c].nreq > 0 => calls[c].req.verb = VerbGiven(factory.args.method)


\* C11: given a method that is none of GET, POST, PUT, DELETE, PATCH (a
\* Methods member, its name as a string, or a string naming no method), the
\* factory raises ValueError and returns no callable.
C11_UnsupportedMethodRaisesValueError ==
    (factory.state # "none" /\ VerbGiven(factory.args.method) = "")
    => (factory.state = "raised" /\ factory.exc = "ValueError")


\* C12: once imported, the session module provides start_session,
\* stop_session and list_session: POST /api/sessions/start and POST
\* /api/sessions/stop with body name "default" and expected status 201, GET
\* /api/sessions/ with expected status 200.
C12_SessionModuleProvidesEndpoints ==
    (session_py.state # "unloaded")
    => /\ session_py.state = "loaded"
       /\ session_py.names = {"start_session", "stop_session", "list_session"}
       /\ SessionDecls.start_session.method = "POST" /\ SessionDecls.start_session.expected_code = 201
       /\ SessionDecls.stop_session.method = "POST" /\ SessionDecls.stop_session.expected_code = 201
       /\ SessionDecls.list_session.method = "GET" /\ SessionDecls.list_session.expected_code = 200


\* C13: calls share no mutable state: however calls interleave, the closure
\* of the callable (its defaults included) is what the factory was given,
\* the request of each call is the one its own arguments give on that
\* declaration, and what it returns is built from its own response.
C13_NoSharedState ==
    factory.state = "made"
    => /\ factory.ep = Endpoint(factory.args, factory.ep.verb)
       /\ \A c \in CallIds :
             /\ calls[c].nreq > 0
                => calls[c].req
                     = api_call(Endpoint(factory.args, factory.ep.verb), calls[c].args).req
             /\ calls[c].pc \in {"returned", "awaited"}
                => /\ calls[c].resp.url = calls[c].req.url
                   /\ calls[c].out = Return(Coroutine(factory.args.response_model, calls[c].resp,
                                                      factory.args.expected_code))

C13_Witness ==
    /\ scope = "conc"
    /\ calls[1].pc = "requested"
    /\ calls[2].pc = "returned"
    /\ calls[1].req.url # calls[2].req.url
    /\ calls[1].args.session # calls[2].args.session


\* C14: a call that sends its request on a session the caller supplied
\* creates none and leaves that session open, when it returns and when it
\* raises; a call given no session creates exactly one, sends its request on
\* it and has closed it by the time it ends, by return or by exception.
C14_SessionOwnership ==
    \A c \in CallIds :
        calls[c].nreq > 0
        => IF calls[c].args.session = "caller"
           THEN calls[c].session = "caller" /\ calls[c].created = 0 /\ calls[c].sessionOpen
           ELSE /\ calls[c].session = "adhoc"
                /\ calls[c].created = 1
                /\ calls[c].sessionOpen = ~Ended(c)

C14_Witness ==
    /\ calls[1].pc = "raised"
    /\ calls[1].out.exc = "ClientConnectionError"
    /\ calls[1].args.session = "None"
    /\ calls[1].created = 1
    /\ ~calls[1].sessionOpen
    /\ calls[2].pc = "returned"
    /\ calls[2].args.session = "caller"
    /\ calls[2].sessionOpen


\* C15: within a call the status check and the reading and validation of the
\* body happen while the response and its session are open: a response that
\* has been released, and a session of the call's own that has been closed
\* after the response came, have had handle_response run to its end first.
C15_HandledBeforeRelease ==
    \A c \in CallIds :
        /\ (calls[c].resp.status # 0 /\ ~calls[c].respOpen) => calls[c].handled = "open"
        /\ (calls[c].resp.status # 0 /\ calls[c].session = "adhoc" /\ ~calls[c].sessionOpen)
           => calls[c].handled = "open"


\* C16: the placeholder names path_param_wrapper extracts from a template
\* are exactly the named placeholders {name} occurring in it, whether in
\* adjacent segments, in the last segment, or named with digits or
\* underscores.
C16_ExtractsAllPlaceholders ==
    (factory.state = "made" /\ factory.ep.kind = "path")
    => SeqToSet(factory.ep.cleaned_args) = PlaceholderNames(factory.ep.path)

====
